---------------------------- MODULE Spec2Model ----------------------------
(***************************************************************************)
(* Model of the bounded-concurrency media pipeline of the Telegram video   *)
(* download bot: DownloadQueueManager (src/queue_manager.py), the pipeline *)
(* stage runner MediaProcessor.process (src/processors/media_processor.py),*)
(* TwitterService.download (src/services/twitter_service.py) and the       *)
(* ProgressTracker (src/utils/progress.py).                                *)
(*                                                                         *)
(* One step of a worker runs the coroutine from one suspension point       *)
(* (await) to the next, as the asyncio event loop does.                    *)
(*                                                                         *)
(* The specifications:                                                     *)
(*   Spec          the queue manager as written: DownloadTask is a         *)
(*                 dataclass with eq and without frozen, so it is          *)
(*                 unhashable and active_tasks.add(task) raises TypeError  *)
(*                 (queue_manager.py:25-34, 109).                          *)
(*   SpecPipeline  the same machine where the task object handed to the    *)
(*                 worker may also be hashable, so that the code behind    *)
(*                 line 109 (the pipeline) runs and is examined.           *)
(*   SpecTracker   the ProgressTracker driven by arbitrary calls.          *)
(*   SpecThrottle  should_update_message against the clock.                *)
(*   SpecShared    update and get_state from two threads.                  *)
(*   SpecRetrieve  one call of TwitterService.download or of               *)
(*                 YoutubeService.download.                                *)
(*   SpecCompress  VideoCompressor.compress_if_needed called repeatedly.   *)
(*   SpecEncode    _compress_video_sync run once.                          *)
(***************************************************************************)
EXTENDS Integers, Sequences, FiniteSets, TLC

\* ------------------------------------------------------------------ bounds
\* Number of add_to_queue calls explored.
MaxTasks == 3
\* Last reading of the clock explored, in ticks of half a second.
MaxClock == 12
\* Number of force_update_allowed calls explored.
MaxForces == 1
\* Number of compress_if_needed calls explored.
MaxCompressCalls == 3

\* ------------------------------------------------------- program constants
\* DownloadQueueManager(max_concurrent=2)
max_concurrent == 2
\* ProgressTracker(throttle_seconds=2.5), in ticks of half a second
throttle_seconds == 5

\* Python's None and Optional values: an Optional is a set of at most one value.
None == {}
Some(x) == {x}
The(o) == CHOOSE x \in o : TRUE

\* range(self.max_concurrent): the worker ids created by start()
Workers == 0 .. (max_concurrent - 1)
Tasks == 1 .. MaxTasks

\* class TaskStatus
TaskStatus == {"pending", "downloading", "compressing", "uploading", "completed", "failed"}
\* class ProgressStage
ProgressStage == {"idle", "downloading", "processing", "compressing", "uploading", "completed", "failed"}

\* The services a task can carry: TwitterService.download(url, progress_tracker)
\* accepts the keyword MediaProcessor passes; YoutubeService.download(url) does
\* not (nor does MockService.download(url), which "youtube" stands for too).
Services == {"twitter", "youtube"}
AcceptsProgressTracker(s) == s = "twitter"

\* Temporary resources a task can own on disk.
TempKinds == {"temp_dir", "artifact", "compressed"}

VARIABLES
    \* --- DownloadQueueManager
    queue,          \* self.queue: the backlog, a sequence of task ids
    running,        \* self._running
    lifecycle,      \* "new" | "running" | "stopping" (stop() awaits gather) | "stopped"
    semaphore,      \* self.semaphore._value
    active_tasks,   \* self.active_tasks
    stats,          \* self.stats
    hashable,       \* whether the task object can be put into a set
    \* --- DownloadTask objects, numbered in submission order
    nTasks,         \* number of tasks created by add_to_queue
    svc,            \* task.service
    status,         \* task.status
    files,          \* temporary files and directories of the task that exist
    \* --- worker coroutines
    wpc,            \* position of each worker
    cur,            \* the task a worker holds
    cancelReq,      \* worker.cancel() was called and CancelledError not yet delivered
    tracker,        \* the ProgressTracker of the running process() call
    msg,            \* processing_msg is not None
    exc,            \* exception in flight while process() runs its finally block
    needs_compression,  \* result.get('needs_compression') once download returned
    stages,        \* the stages process() entered (_update_status(stage, 1)), in order
    delivered,      \* client.send_file returned
    rendered,       \* the text of the final _safe_edit of the finally block
    reporter,       \* progress_task: position of _progress_updater
    handed,         \* size of the file at final_path when send_file was called
    \* --- observations
    dequeued,       \* tasks in the order queue.get() returned them
    started,        \* tasks in the order MediaProcessor.process began
    procEnd,        \* how process() ended for a task
    notified,       \* the "Failed" reply was issued for the task
    lastNotice,     \* last queue-position notice sent by add_to_queue
    workerErrors,   \* worker-loop-level exceptions logged
    everCancelled,  \* stop() called cancel() on the worker
    \* --- a ProgressTracker driven directly
    pt,             \* ProgressTracker._state
    snap,           \* last value returned by get_state()
    lastCall,       \* the last call made on the tracker
    \* --- the message throttle of that tracker
    clock,          \* time.time()
    last_message_update,    \* ProgressTracker._last_message_update
    tpc,            \* position of each thread inside should_update_message
    current_time,   \* the local current_time of each thread
    emits,          \* the calls that returned True, in lock order
    forces,         \* number of force_update_allowed calls made
    \* --- one _progress_updater coroutine polling that tracker
    upd,            \* position of the coroutine
    last_text,      \* its local last_text
    sent,           \* the edits it issued, in order
    \* --- the lock of that tracker
    lock,           \* the thread holding ProgressTracker._lock, if any
    upc,            \* position of each producer thread inside update
    args,           \* the arguments of the update call a producer is in
    committed,      \* the states left by the update calls that are complete
    mutated,        \* the snapshot object after its caller changed a field of it
    \* --- one TwitterService.download or YoutubeService.download call
    rsvc,           \* the service whose download is called
    scen,           \* what the collaborators (yt-dlp, aiohttp, ffmpeg) will do
    rpc,            \* position of the call
    attempts,       \* user agents tried so far, in order
    last_error,     \* last_error
    meta,           \* meta
    downloaded,     \* downloaded
    ran,            \* the transfer paths that were run, in order
    output_size,    \* size of the file at output_path (0: no file)
    result,         \* the dict returned
    raised,         \* the exception raised to the caller
    \* --- VideoCompressor.compress_if_needed calls on one input file
    fs0,            \* the files before the first call: path -> size (0: no file)
    fs,             \* the files now
    cpc,            \* position of the call
    ccalls,         \* number of calls made
    cret,           \* what the last call returned
    encoder_runs,   \* number of ffprobe and ffmpeg processes started
    enc,            \* the last _compress_video_sync run: its ceiling, what ffprobe and ffmpeg do
    sync            \* what that run returned and handed to the encoder

qvars == <<queue, running, lifecycle, semaphore, active_tasks, stats, hashable>>
tvars == <<nTasks, svc, status, files>>
bvars == <<needs_compression, stages, delivered, rendered, reporter, handed>>
wvars == <<wpc, cur, cancelReq, tracker, msg, exc, bvars>>
ovars == <<dequeued, started, procEnd, notified, lastNotice, workerErrors, everCancelled>>
uvars == <<upd, last_text, sent>>
hvars == <<clock, last_message_update, tpc, current_time, emits, forces, uvars>>
lvars == <<lock, upc, args, committed, mutated>>
rvars == <<rsvc, scen, rpc, attempts, last_error, meta, downloaded, ran, output_size,
           result, raised>>
cvars == <<fs0, fs, cpc, ccalls, cret, encoder_runs, enc, sync>>
xvars == <<rvars, cvars>>
pvars == <<pt, snap, lastCall, hvars, lvars, xvars>>
vars == <<qvars, tvars, wvars, ovars, pvars>>

\* ------------------------------------------------------- ProgressTracker
\* ProgressState(): the dataclass defaults (last_update is a wall-clock stamp
\* no modelled operation reads)
ProgressState0 ==
    [stage |-> "idle", progress |-> 0, speed |-> "", eta |-> "", filename |-> "",
     error |-> None, completed |-> FALSE]

\* min(100.0, max(0.0, progress))
ClampNoUpper(p) == IF p < 0 THEN 0 ELSE p
Clamp(p) == IF p < 0 THEN 0 ELSE IF p > 100 THEN 100 ELSE p

\* ProgressTracker.update: merge the fields given (an Optional each), in the
\* order of the code: stage, progress, speed, eta, filename, error, completed.
update(s, stage, progress, speed, eta, filename, error, completed) ==
    LET s1 == IF stage # None THEN [s EXCEPT !.stage = The(stage)] ELSE s
        s2 == IF progress # None THEN [s1 EXCEPT !.progress = Clamp(The(progress))] ELSE s1
        s3 == IF speed # None THEN [s2 EXCEPT !.speed = The(speed)] ELSE s2
        s4 == IF eta # None THEN [s3 EXCEPT !.eta = The(eta)] ELSE s3
        s5 == IF filename # None THEN [s4 EXCEPT !.filename = The(filename)] ELSE s4
        s6 == IF error # None
              THEN [s5 EXCEPT !.error = error, !.stage = "failed"]
              ELSE s5
        s7 == IF completed # None
              THEN [s6 EXCEPT !.completed = The(completed),
                              !.stage = IF The(completed) THEN "completed" ELSE s6.stage]
              ELSE s6
    IN  s7

\* ProgressTracker.set_error: self.update(error=error_message, completed=True)
set_error(s, m) == update(s, None, None, None, None, None, Some(m), Some(TRUE))

\* ProgressTracker.set_completed: self.update(progress=100.0, completed=True)
SetCompletedBackToDownloading(s) ==
    update(s, Some("downloading"), Some(100), None, None, None, None, None)
set_completed(s) == update(s, None, Some(100), None, None, None, None, Some(TRUE))

\* MediaProcessor.process at the entry of its stages:
\*   tracker.update(stage=ProgressStage.DOWNLOADING, progress=0)
\*   tracker.update(stage=ProgressStage.COMPRESSING, progress=0, eta="Calculating...")
\*   tracker.update(stage=ProgressStage.UPLOADING, progress=0)
EnterDownloadStage(s) == update(s, Some("downloading"), Some(0), None, None, None, None, None)
EnterCompressStage(s) ==
    update(s, Some("compressing"), Some(0), None, Some("Calculating..."), None, None, None)
EnterUploadStage(s) == update(s, Some("uploading"), Some(0), None, None, None, None, None)

\* ProgressTracker.get_state: a copy of every field
get_state(s) ==
    [stage |-> s.stage, progress |-> s.progress, speed |-> s.speed, eta |-> s.eta,
     filename |-> s.filename, error |-> s.error, completed |-> s.completed]

\* generate_progress_bar(progress): the bar and the percentage printed with
\* one decimal, both fixed by the clamped progress
generate_progress_bar(progress) == Clamp(progress)

\* format_progress_message(state, title): the heading, for a failure the
\* reason shown, and the bar and figures printed under the title
format_progress_message(state) ==
    CASE state.stage = "failed" ->
             [heading |-> "Failed",
              reason |-> IF state.error = None THEN Some("Unknown error") ELSE state.error,
              body |-> << >>]
      [] state.stage = "downloading" ->
             [heading |-> "Downloading", reason |-> None,
              body |-> <<generate_progress_bar(state.progress), state.speed, state.eta>>]
      [] state.stage = "compressing" ->
             [heading |-> "Compressing", reason |-> None,
              body |-> <<generate_progress_bar(state.progress), state.eta>>]
      [] state.stage = "uploading" ->
             [heading |-> "Uploading", reason |-> None,
              body |-> <<generate_progress_bar(state.progress), state.speed>>]
      [] state.stage = "completed" -> [heading |-> "Completed", reason |-> None, body |-> << >>]
      [] OTHER -> [heading |-> "Processing", reason |-> None, body |-> << >>]

\* last_text = "": no text of format_progress_message is empty
NoText == [heading |-> "", reason |-> None, body |-> << >>]

\* ------------------------------------------------- DownloadQueueManager
\* self.stats as __init__ leaves it
Stats0 ==
    [total_queued |-> 0, total_processed |-> 0, total_failed |-> 0,
     total_compressed |-> 0, active |-> 0, currently_downloading |-> 0,
     currently_compressing |-> 0, currently_uploading |-> 0]

\* DownloadQueueManager.update_status: self.stats[key] = max(0, self.stats[key] + increment)
\* for key = 'currently_' + status_type
update_status(st, status_type, increment) ==
    LET bump(v) == IF v + increment < 0 THEN 0 ELSE v + increment
    IN  CASE status_type = "downloading" ->
               [st EXCEPT !.currently_downloading = bump(@)]
          [] status_type = "compressing" ->
               [st EXCEPT !.currently_compressing = bump(@)]
          [] status_type = "uploading" ->
               [st EXCEPT !.currently_uploading = bump(@)]
          [] OTHER -> st

\* asyncio.Queue() is created without maxsize: put() never finds it full
QueueBounded(q) == Len(q) >= 1
QueueFull(q) == FALSE

\* asyncio.Queue.get(): the oldest item and the remaining backlog
QueueGetNewest(q) == [item |-> q[Len(q)], rest |-> SubSeq(q, 1, Len(q) - 1)]
QueueGet(q) == [item |-> Head(q), rest |-> Tail(q)]

\* asyncio.Semaphore: locked(), and the counter after acquire() and release()
SemLocked(v) == v = 0
SemAcquireNothing(v) == v
SemAcquire(v) == v - 1
SemReleaseNothing(v) == v
SemRelease(v) == v + 1

\* while self._running: the position of a worker that comes back to the loop head
LoopCheck(r) == IF r THEN "get" ELSE "done"

\* except Exception as e: logger.error(...): the loop goes on
WorkerErrorEndsLoop(r) == "done"
AfterWorkerError(r) == LoopCheck(r)

\* await asyncio.gather(*self._workers, return_exceptions=True) has returned
GatherNoWait == TRUE
GatherDone == \A w \in Workers : wpc[w] = "done"

InitQueue ==
    /\ queue = << >>
    /\ running = FALSE
    /\ lifecycle = "new"
    /\ semaphore = max_concurrent
    /\ active_tasks = {}
    /\ stats = Stats0
    /\ nTasks = 0
    /\ svc = [t \in Tasks |-> "none"]
    /\ status = [t \in Tasks |-> "absent"]
    /\ files = [t \in Tasks |-> {}]
    /\ wpc = [w \in Workers |-> "none"]
    /\ cur = [w \in Workers |-> None]
    /\ cancelReq = [w \in Workers |-> FALSE]
    /\ tracker = [w \in Workers |-> ProgressState0]
    /\ msg = [w \in Workers |-> FALSE]
    /\ exc = [w \in Workers |-> "none"]
    /\ needs_compression = [w \in Workers |-> None]
    /\ stages = [w \in Workers |-> << >>]
    /\ delivered = [w \in Workers |-> FALSE]
    /\ rendered = [w \in Workers |-> None]
    /\ reporter = [w \in Workers |-> "none"]
    /\ handed = [w \in Workers |-> None]
    /\ dequeued = << >>
    /\ started = << >>
    /\ procEnd = [t \in Tasks |-> "none"]
    /\ notified = [t \in Tasks |-> FALSE]
    /\ lastNotice = None
    /\ workerErrors = 0
    /\ everCancelled = [w \in Workers |-> FALSE]

\* Threads that call should_update_message, and producer threads that call update
Callers == {"reporter", "other"}
Producers == {"yt_dlp", "ffmpeg"}

InitTracker ==
    /\ pt = ProgressState0
    /\ snap = None
    /\ lastCall = None
    /\ clock = throttle_seconds
    /\ last_message_update = 0
    /\ tpc = [c \in Callers |-> "idle"]
    /\ current_time = [c \in Callers |-> 0]
    /\ emits = << >>
    /\ forces = 0
    /\ upd = "none"
    /\ last_text = NoText
    /\ sent = << >>
    /\ lock = None
    /\ upc = [p \in Producers |-> "idle"]
    /\ args = [p \in Producers |-> None]
    /\ committed = {ProgressState0}
    /\ mutated = None

\* DownloadQueueManager.start, called once on a new manager as main.py does
Start ==
    /\ lifecycle = "new"
    /\ running' = TRUE
    /\ lifecycle' = "running"
    /\ wpc' = [w \in Workers |-> "get"]
    /\ cancelReq' = [w \in Workers |-> FALSE]
    /\ everCancelled' = [w \in Workers |-> FALSE]
    /\ UNCHANGED <<queue, semaphore, active_tasks, stats, hashable, tvars,
                   cur, tracker, msg, exc, bvars, dequeued, started, procEnd, notified,
                   lastNotice, workerErrors, pvars>>

\* DownloadQueueManager.stop up to its await: _running = False and cancel()
\* on every worker (cancel() of a finished worker does nothing)
StopBegin ==
    /\ lifecycle = "running"
    /\ running' = FALSE
    /\ lifecycle' = "stopping"
    /\ cancelReq' = [w \in Workers |-> wpc[w] # "done"]
    /\ everCancelled' = [w \in Workers |-> TRUE]
    /\ UNCHANGED <<queue, semaphore, active_tasks, stats, hashable, tvars,
                   wpc, cur, tracker, msg, exc, bvars, dequeued, started, procEnd,
                   notified, lastNotice, workerErrors, pvars>>

\* DownloadQueueManager.stop after its await: gather returned, _workers.clear()
StopEnd ==
    /\ lifecycle = "stopping"
    /\ GatherDone
    /\ lifecycle' = "stopped"
    /\ UNCHANGED <<queue, running, semaphore, active_tasks, stats, hashable,
                   tvars, wvars, dequeued, started, procEnd, notified,
                   lastNotice, workerErrors, everCancelled, pvars>>

\* DownloadQueueManager.add_to_queue with _notify_queue_position
add_to_queue(s) ==
    /\ nTasks < MaxTasks
    /\ ~QueueFull(queue)
    /\ LET t == nTasks + 1
           queue_size == Len(queue) + 1
           active_count == Cardinality(active_tasks)
       IN  /\ nTasks' = t
           /\ svc' = [svc EXCEPT ![t] = s]
           /\ status' = [status EXCEPT ![t] = "pending"]
           /\ queue' = Append(queue, t)
           /\ stats' = [stats EXCEPT !.total_queued = @ + 1]
           /\ lastNotice' =
                 IF queue_size > 1 \/ active_count >= max_concurrent
                 THEN Some([position |-> queue_size, active |-> active_count])
                 ELSE lastNotice
    /\ UNCHANGED <<running, lifecycle, semaphore, active_tasks, hashable,
                   files, wvars, dequeued, started, procEnd, notified,
                   workerErrors, everCancelled, pvars>>

\* ------------------------------------------- MediaProcessor.process, steps
TaskOf(w) == The(cur[w])

\* 'temp_dir' in locals(): process() has no local variable of that name (the
\* directory is result['temp_dir']), so service.cleanup is never called
TempDirInLocals == FALSE

\* The cleanup at the end of the finally block: os.unlink of every path in
\* temp_files, then service.cleanup(result['temp_dir']) under the locals() test
Cleanup(fl, temp_files) ==
    fl \ (temp_files \cup (IF TempDirInLocals THEN {"temp_dir"} ELSE {}))

\* self.compressor.compress_if_needed(video_path, progress_callback=comp_cb):
\* VideoCompressor.compress_if_needed(self, input_path) takes no such keyword,
\* so the call raises TypeError before the coroutine is created
CompressCallRaises == TRUE

\* TwitterService.COMPRESSION_THRESHOLD_BYTES = 49 * 1024 * 1024
COMPRESSION_THRESHOLD_BYTES == 49 * 1024 * 1024

\* 'needs_compression': file_size > self.COMPRESSION_THRESHOLD_BYTES
NeverNeedsCompression(size) == FALSE
NeedsCompression(size) == size > COMPRESSION_THRESHOLD_BYTES

\* TwitterService.download, how it can end: it raises, or it returns a result
\* for a file at or under the threshold ("small") or over it ("large")
DownloadOutcomes == {"fail", "small", "large"}

\* The sizes of the file at result['file_path']: the largest that needs no
\* compression, the smallest that does, and a 60 MB file over the
\* compressor's ceiling
ArtifactSizes ==
    {COMPRESSION_THRESHOLD_BYTES, COMPRESSION_THRESHOLD_BYTES + 1, 60 * 1024 * 1024}
SizesOf(r) ==
    CASE r = "small" -> {n \in ArtifactSizes : n <= COMPRESSION_THRESHOLD_BYTES}
      [] r = "large" -> {n \in ArtifactSizes : n > COMPRESSION_THRESHOLD_BYTES}
      [] OTHER -> {0}

\* TwitterService.download, files on return or raise: the finally block removes
\* temp_dir; on success the artifact was moved to a NamedTemporaryFile(delete=False)
FilesAfterDownload(fl, r) ==
    IF r = "fail" THEN fl \ {"temp_dir"}
    ELSE (fl \ {"temp_dir"}) \cup {"artifact"}

\* task.status after process() returned, raised an Exception, or was cancelled
StatusAfter(old, outcome) ==
    CASE outcome = "return" -> "completed"
      [] outcome = "error" -> "failed"
      [] OTHER -> old

\* if result.get('needs_compression'): None and False are not true
AlwaysTruthy(v) == TRUE
Truthy(v) == v = Some(TRUE)

\* await progress_task returns: the reporter task is done
ReporterFinishedOrNot(r) == TRUE
ReporterFinished(r) == r = "done"

\* The locals of process() and what it has sent out, after a step
Locals(w, nc, en, dv, rd, rp, hd) ==
    /\ needs_compression' = [needs_compression EXCEPT ![w] = nc]
    /\ stages' = [stages EXCEPT ![w] = en]
    /\ delivered' = [delivered EXCEPT ![w] = dv]
    /\ rendered' = [rendered EXCEPT ![w] = rd]
    /\ reporter' = [reporter EXCEPT ![w] = rp]
    /\ handed' = [handed EXCEPT ![w] = hd]
SameLocals(w) ==
    Locals(w, needs_compression[w], stages[w], delivered[w], rendered[w], reporter[w],
           handed[w])

\* The worker stays inside process() and suspends at another await.
StayInProcess(w, t, pcNew, trkNew, stNew, flNew, excNew, msgNew) ==
    /\ wpc' = [wpc EXCEPT ![w] = pcNew]
    /\ tracker' = [tracker EXCEPT ![w] = trkNew]
    /\ stats' = stNew
    /\ files' = [files EXCEPT ![t] = flNew]
    /\ exc' = [exc EXCEPT ![w] = excNew]
    /\ msg' = [msg EXCEPT ![w] = msgNew]
    /\ cancelReq' = [cancelReq EXCEPT ![w] = FALSE]
    /\ UNCHANGED <<semaphore, active_tasks, status, cur, procEnd, notified>>

\* process() returns ("return"), raises an Exception ("error") or raises
\* CancelledError ("cancelled") into _process_task_safely:
\*   return:    status COMPLETED, total_processed += 1, finally, release,
\*              task_done(), back to the loop head
\*   error:     status FAILED, await task.event.reply("Failed ...")
\*   cancelled: finally, release, except CancelledError: break
LeaveProcess(w, t, outcome, stNew, flNew) ==
    LET left == active_tasks \ {t}
    IN
    /\ status' = [status EXCEPT ![t] = StatusAfter(@, outcome)]
    /\ procEnd' = [procEnd EXCEPT ![t] = outcome]
    /\ files' = [files EXCEPT ![t] = flNew]
    /\ tracker' = [tracker EXCEPT ![w] = ProgressState0]
    /\ exc' = [exc EXCEPT ![w] = "none"]
    /\ msg' = [msg EXCEPT ![w] = FALSE]
    /\ cancelReq' = [cancelReq EXCEPT ![w] = FALSE]
    /\ Locals(w, None, << >>, FALSE, None, "none", None)
    /\ IF outcome = "error"
       THEN /\ wpc' = [wpc EXCEPT ![w] = "fail_reply"]
            /\ notified' = [notified EXCEPT ![t] = TRUE]
            /\ stats' = stNew
            /\ UNCHANGED <<semaphore, active_tasks, cur>>
       ELSE /\ wpc' = [wpc EXCEPT ![w] =
                         IF outcome = "cancelled" THEN "done" ELSE LoopCheck(running)]
            /\ active_tasks' = left
            /\ stats' = [stNew EXCEPT
                            !.total_processed = IF outcome = "return" THEN @ + 1 ELSE @,
                            !.active = Cardinality(left)]
            /\ semaphore' = SemRelease(semaphore)
            /\ cur' = [cur EXCEPT ![w] = None]
            /\ UNCHANGED notified

\* What process() raises or returns once its finally block is through
Outcome(e) == IF e = "none" THEN "return" ELSE e

\* ---------------------------------------------------------- worker steps
\* _worker: asyncio.wait_for(self.queue.get(), timeout=1.0) times out, continue
WorkerTimeout(w) ==
    /\ wpc[w] = "get"
    /\ queue = << >>
    /\ ~cancelReq[w]
    /\ wpc' = [wpc EXCEPT ![w] = LoopCheck(running)]
    /\ UNCHANGED <<qvars, tvars, cur, cancelReq, tracker, msg, exc, bvars, ovars, pvars>>

\* _worker: CancelledError delivered while the worker waits for the queue or
\* for the semaphore: except asyncio.CancelledError: break
WorkerCancelled(w) ==
    /\ wpc[w] \in {"get", "sem"}
    /\ cancelReq[w]
    /\ wpc' = [wpc EXCEPT ![w] = "done"]
    /\ cancelReq' = [cancelReq EXCEPT ![w] = FALSE]
    /\ cur' = [cur EXCEPT ![w] = None]
    /\ UNCHANGED <<qvars, tvars, tracker, msg, exc, bvars, ovars, pvars>>

\* _worker: queue.get() returns a task, async with self.semaphore, then
\* _process_task_safely up to its first await, which is process()'s
\* task.event.reply("Starting...").  A worker that finds the semaphore locked
\* waits holding its task ("sem") and resumes here.  wait_for returns the task
\* even if cancel() arrived after the inner get() completed.
WorkerTake(w) ==
    /\ IF wpc[w] = "get" THEN queue # << >>
       ELSE wpc[w] = "sem" /\ ~SemLocked(semaphore) /\ ~cancelReq[w]
    /\ LET fresh == wpc[w] = "get"
           got == QueueGet(queue)
           t == IF fresh THEN got.item ELSE TaskOf(w)
           entered == active_tasks \cup {t}
       IN
       /\ queue' = IF fresh THEN got.rest ELSE queue
       /\ dequeued' = IF fresh THEN Append(dequeued, t) ELSE dequeued
       /\ cancelReq' = [cancelReq EXCEPT ![w] = FALSE]
       /\ IF SemLocked(semaphore)
          THEN /\ wpc' = [wpc EXCEPT ![w] = "sem"]
               /\ cur' = [cur EXCEPT ![w] = Some(t)]
               /\ UNCHANGED <<semaphore, active_tasks, stats, started, workerErrors,
                              tracker, msg, exc>>
          ELSE IF ~hashable
          THEN \* self.active_tasks.add(task) raises TypeError: the semaphore is
               \* released and the worker's except Exception logs it
               /\ semaphore' = SemRelease(SemAcquire(semaphore))
               /\ workerErrors' = workerErrors + 1
               /\ wpc' = [wpc EXCEPT ![w] = AfterWorkerError(running)]
               /\ cur' = [cur EXCEPT ![w] = None]
               /\ UNCHANGED <<active_tasks, stats, started, tracker, msg, exc>>
          ELSE /\ semaphore' = SemAcquire(semaphore)
               /\ active_tasks' = entered
               /\ stats' = [stats EXCEPT !.active = Cardinality(entered)]
               /\ started' = Append(started, t)
               /\ wpc' = [wpc EXCEPT ![w] = "reply"]
               /\ cur' = [cur EXCEPT ![w] = Some(t)]
               /\ tracker' = [tracker EXCEPT ![w] = ProgressState0]
               /\ msg' = [msg EXCEPT ![w] = FALSE]
               /\ exc' = [exc EXCEPT ![w] = "none"]
               /\ UNCHANGED workerErrors
    /\ UNCHANGED <<running, lifecycle, hashable, tvars, procEnd, notified,
                   lastNotice, everCancelled, bvars, pvars>>

\* What no step of process() touches
ProcessFrame ==
    UNCHANGED <<queue, running, lifecycle, hashable, nTasks, svc, dequeued,
                started, lastNotice, workerErrors, everCancelled, pvars>>

\* process(): task.event.reply("Starting...") is over.  On success the reporter
\* task is created, the download stage is entered and service.download is called
\* with progress_tracker=tracker.
ProcReplyDone(w) ==
    /\ wpc[w] = "reply"
    /\ LET t == TaskOf(w)
           st1 == update_status(stats, "downloading", 1)
           trk1 == EnterDownloadStage(tracker[w])
       IN  IF cancelReq[w]
           THEN \* progress_task is None, _safe_edit(None, ...) swallows AttributeError
                LeaveProcess(w, t, "cancelled", stats, files[t])
           ELSE \E ok \in BOOLEAN :
                  IF ~ok
                  THEN LeaveProcess(w, t, "error", stats, files[t])
                  ELSE IF AcceptsProgressTracker(svc[t])
                  THEN \* TwitterService.download: mkdtemp, first tracker update
                       /\ StayInProcess(w, t, "download",
                              update(trk1, Some("downloading"), Some(5), Some("Extracting info..."),
                                     None, None, None, None),
                              st1, files[t] \cup {"temp_dir"}, "none", TRUE)
                       /\ Locals(w, None, <<"downloading">>, FALSE, None, "sleep", None)
                  ELSE \* TypeError: unexpected keyword argument 'progress_tracker'
                       /\ StayInProcess(w, t, "fin_await", set_error(trk1, "TypeError"),
                              st1, files[t], "error", TRUE)
                       /\ Locals(w, None, <<"downloading">>, FALSE, None, "sleep", None)
    /\ ProcessFrame

\* process(): service.download is over; on success the download stage is left
\* and the compress or the upload stage is entered.
ProcDownloadDone(w) ==
    /\ wpc[w] = "download"
    /\ LET t == TaskOf(w)
       IN  IF cancelReq[w]
           THEN /\ StayInProcess(w, t, "fin_await", tracker[w], stats,
                                 files[t] \ {"temp_dir"}, "cancelled", TRUE)
                /\ SameLocals(w)
           ELSE \E r \in DownloadOutcomes : \E size \in SizesOf(r) :
                  LET fl == FilesAfterDownload(files[t], r)
                      trkOk == update(tracker[w], Some("processing"), Some(100),
                                      None, None, None, None, None)
                      st1 == update_status(stats, "downloading", -1)
                      nc == Some(NeedsCompression(size))
                  IN  IF r = "fail"
                      THEN \* download's except and then process's except
                           /\ StayInProcess(w, t, "fin_await",
                                  set_error(set_error(tracker[w], "download"), "download"),
                                  stats, fl, "error", TRUE)
                           /\ SameLocals(w)
                      ELSE IF Truthy(nc)
                      THEN \* CompressCallRaises: the call raises TypeError
                           /\ CompressCallRaises
                           /\ StayInProcess(w, t, "fin_await",
                                  set_error(EnterCompressStage(trkOk), "TypeError"),
                                  update_status(st1, "compressing", 1), fl, "error", TRUE)
                           /\ Locals(w, nc, Append(stages[w], "compressing"), FALSE, None,
                                     reporter[w], None)
                      ELSE /\ StayInProcess(w, t, "upload",
                                  EnterUploadStage(trkOk),
                                  update_status(st1, "uploading", 1), fl, "none", TRUE)
                           /\ Locals(w, nc, Append(stages[w], "uploading"), FALSE, None,
                                     reporter[w], Some(size))
    /\ ProcessFrame

\* process(): client.send_file is over
ProcUploadDone(w) ==
    /\ wpc[w] = "upload"
    /\ LET t == TaskOf(w)
       IN  IF cancelReq[w]
           THEN /\ StayInProcess(w, t, "fin_await", tracker[w], stats, files[t],
                                 "cancelled", TRUE)
                /\ SameLocals(w)
           ELSE \E ok \in BOOLEAN :
                  IF ok
                  THEN /\ StayInProcess(w, t, "fin_await", set_completed(tracker[w]),
                              update_status(stats, "uploading", -1), files[t], "none", TRUE)
                       /\ Locals(w, needs_compression[w], stages[w], TRUE, None, reporter[w],
                                 handed[w])
                  ELSE /\ StayInProcess(w, t, "fin_await", set_error(tracker[w], "upload"),
                              stats, files[t], "error", TRUE)
                       /\ SameLocals(w)
    /\ ProcessFrame

\* _progress_updater: asyncio.sleep(0.5) is over; the loop ends if the state
\* is completed or failed, else the message is edited if the throttle allows
\* it and the text changed (if not, the coroutine sleeps again: no change)
ReporterWake(w) ==
    /\ reporter[w] = "sleep"
    /\ wpc[w] \in {"download", "upload"}
    /\ LET state == get_state(tracker[w])
       IN  IF state.completed \/ state.stage = "failed"
           THEN reporter' = [reporter EXCEPT ![w] = "done"]
           ELSE reporter' = [reporter EXCEPT ![w] = "edit"]
    /\ UNCHANGED <<wpc, cur, cancelReq, tracker, msg, exc, needs_compression, stages,
                   delivered, rendered, handed, qvars, tvars, ovars, pvars>>

\* _progress_updater: _safe_edit(msg, text) is over (an Exception of msg.edit
\* is swallowed), back to asyncio.sleep
ReporterEditDone(w) ==
    /\ reporter[w] = "edit"
    /\ wpc[w] \in {"download", "upload"}
    /\ reporter' = [reporter EXCEPT ![w] = "sleep"]
    /\ UNCHANGED <<wpc, cur, cancelReq, tracker, msg, exc, needs_compression, stages,
                   delivered, rendered, handed, qvars, tvars, ovars, pvars>>

\* _progress_updater after progress_task.cancel(): CancelledError is raised at
\* its await (sleep, or msg.edit inside _safe_edit, whose except Exception does
\* not catch it) and except asyncio.CancelledError: pass ends the coroutine
ReporterCancelled(w) ==
    /\ reporter[w] \in {"sleep", "edit"}
    /\ wpc[w] = "fin_await"
    /\ reporter' = [reporter EXCEPT ![w] = "done"]
    /\ UNCHANGED <<wpc, cur, cancelReq, tracker, msg, exc, needs_compression, stages,
                   delivered, rendered, handed, qvars, tvars, ovars, pvars>>

\* finally: progress_task.cancel(); await progress_task is over.  A
\* CancelledError raised here is caught by except asyncio.CancelledError: pass.
\* Then _safe_edit(processing_msg, format_progress_message(...)) is awaited.
ProcFinAwait(w) ==
    /\ wpc[w] = "fin_await"
    /\ ReporterFinished(reporter[w])
    /\ StayInProcess(w, TaskOf(w), "fin_edit", tracker[w], stats, files[TaskOf(w)],
                     exc[w], msg[w])
    /\ Locals(w, needs_compression[w], stages[w], delivered[w],
              Some(format_progress_message(get_state(tracker[w]))), reporter[w], handed[w])
    /\ ProcessFrame

\* finally: the last _safe_edit is over (an Exception of msg.edit is swallowed,
\* a CancelledError is not and skips the rest of the block).  If the tracker is
\* completed the message is deleted, else the cleanup runs and process() ends.
ProcFinEdit(w) ==
    /\ wpc[w] = "fin_edit"
    /\ LET t == TaskOf(w)
       IN  IF cancelReq[w]
           THEN LeaveProcess(w, t, "cancelled", stats, files[t])
           ELSE IF get_state(tracker[w]).completed /\ msg[w]
           THEN /\ StayInProcess(w, t, "fin_delete", tracker[w], stats, files[t],
                                 exc[w], msg[w])
                /\ SameLocals(w)
           ELSE LeaveProcess(w, t, Outcome(exc[w]), stats, Cleanup(files[t], {}))
    /\ ProcessFrame

\* finally: processing_msg.delete() is over; its Exception or CancelledError
\* leaves the block at once, else the cleanup runs and process() ends.
ProcFinDelete(w) ==
    /\ wpc[w] = "fin_delete"
    /\ LET t == TaskOf(w)
       IN  IF cancelReq[w]
           THEN LeaveProcess(w, t, "cancelled", stats, files[t])
           ELSE \E ok \in BOOLEAN :
                  IF ok
                  THEN LeaveProcess(w, t, Outcome(exc[w]), stats, Cleanup(files[t], {}))
                  ELSE LeaveProcess(w, t, "error", stats, files[t])
    /\ ProcessFrame

\* _process_task_safely: the "Failed" reply is over (its Exception, and a
\* CancelledError too, are swallowed by the bare except); finally, the
\* semaphore is released, task_done(), back to the loop head
FailReplyDone(w) ==
    /\ wpc[w] = "fail_reply"
    /\ LET t == TaskOf(w)
           left == active_tasks \ {t}
       IN  /\ active_tasks' = left
           /\ stats' = [stats EXCEPT !.active = Cardinality(left)]
           /\ semaphore' = SemRelease(semaphore)
           /\ wpc' = [wpc EXCEPT ![w] = LoopCheck(running)]
           /\ cur' = [cur EXCEPT ![w] = None]
           /\ cancelReq' = [cancelReq EXCEPT ![w] = FALSE]
    /\ UNCHANGED <<status, files, tracker, msg, exc, bvars, procEnd, notified>>
    /\ ProcessFrame

\* ------------------------------- TwitterService.download, one call

\* [self.USER_AGENT] + self.FALLBACK_USER_AGENTS: the user agents by position
UserAgents == 1 .. 3

\* An exception: its class and its message, a sequence of message parts
Error(type, message) == [type |-> type, message |-> message]
\* str(e)
Str(e) == e.message
\* RuntimeError(f"Failed to extract metadata after all attempts. Last error: {last_error}")
ExtractionFailedNoCause(le) ==
    Error("RuntimeError", <<"Failed to extract metadata after all attempts.">>)
ExtractionFailed(le) ==
    Error("RuntimeError",
          <<"Failed to extract metadata after all attempts. Last error:">>
            \o (IF le = None THEN <<"None">> ELSE Str(The(le))))

\* What _extract_metadata_sync can do for one user agent: raise, or return a
\* dict whose direct_url and m3u8_url are set or None
Raises(text) == [ok |-> FALSE, text |-> text, direct_url |-> FALSE, m3u8_url |-> FALSE]
Returns(d, m) == [ok |-> TRUE, text |-> "", direct_url |-> d, m3u8_url |-> m]
ExtractOutcomes ==
    {Raises("rate limited"), Raises("timed out"), Raises("not found")}
        \cup {Returns(d, m) : d, m \in BOOLEAN}

\* File sizes a transfer can leave at output_path: none or empty, just under
\* and at the 10000 byte minimum, at and just over the compression threshold
FileSizes == {0, 9999, 10000, COMPRESSION_THRESHOLD_BYTES, COMPRESSION_THRESHOLD_BYTES + 1}

\* What a transfer can do: fail (direct: return False, ffmpeg: raise; the file
\* is removed) or end normally leaving a file of some size
TransferOutcomes == {[ok |-> FALSE, size |-> 0]} \cup {[ok |-> TRUE, size |-> n] : n \in FileSizes}

Scenarios ==
    [extract : [UserAgents -> ExtractOutcomes], direct : TransferOutcomes,
     ffmpeg : TransferOutcomes, ytdlp : TransferOutcomes]

\* any(x in str(e).lower() for x in ['not found', 'private'])
NeverTerminal(text) == FALSE
IsTerminal(text) == \E i \in 1 .. Len(text) : text[i] \in {"not found", "private"}

\* if not meta: a non-empty dict is true whatever its values
MetaMissing(m) == m = None

\* if meta['direct_url']
DirectAlwaysAvailable(m) == TRUE
DirectAvailable(m) == m.direct_url

\* os.path.getsize(output_path) < 10000 (or the file does not exist)
NeverTooSmall(size) == FALSE
TooSmall(size) == size < 10000

\* The dict TwitterService.download returns, and the one YoutubeService returns
\* (which has no 'needs_compression' key)
TwitterResult(size, m) ==
    [file_size |-> size, needs_compression |-> Some(NeedsCompression(size)), meta |-> m]
YoutubeResult(size) ==
    [file_size |-> size, needs_compression |-> None, meta |-> None]

InitRetrieveNone ==
    /\ rsvc = "none"
    /\ scen = [extract |-> [u \in UserAgents |-> Raises("rate limited")],
               direct |-> [ok |-> FALSE, size |-> 0], ffmpeg |-> [ok |-> FALSE, size |-> 0],
               ytdlp |-> [ok |-> FALSE, size |-> 0]]
    /\ rpc = "none"
    /\ attempts = << >>
    /\ last_error = None
    /\ meta = None
    /\ downloaded = FALSE
    /\ ran = << >>
    /\ output_size = 0
    /\ result = None
    /\ raised = None

\* A call about to be made, with the collaborators' behaviour chosen
InitRetrieve ==
    /\ rsvc \in Services
    /\ scen \in Scenarios
    /\ IF rsvc = "youtube"
       THEN /\ ~scen.direct.ok
            /\ ~scen.ffmpeg.ok
            /\ \A u \in UserAgents : scen.extract[u] = Raises("rate limited")
       ELSE ~scen.ytdlp.ok
    /\ rpc = "call"
    /\ attempts = << >>
    /\ last_error = None
    /\ meta = None
    /\ downloaded = FALSE
    /\ ran = << >>
    /\ output_size = 0
    /\ result = None
    /\ raised = None

\* What no step of download touches
RetrieveFrame ==
    UNCHANGED <<rsvc, scen, snap, lastCall, hvars, lvars, cvars, qvars, tvars, wvars, ovars>>

\* except Exception as e: progress_tracker.set_error(str(e)); raise
RetrieveRaise(trk, e, att, le, m, dl, rn, sz) ==
    /\ rpc' = "raised"
    /\ raised' = Some(e)
    /\ pt' = set_error(trk, Str(e))
    /\ attempts' = att
    /\ last_error' = le
    /\ meta' = m
    /\ downloaded' = dl
    /\ ran' = rn
    /\ output_size' = sz
    /\ UNCHANGED result

\* 4. Finalize: the size test, the move, the tracker update, the result
RetrieveFinalize(trk, att, le, m, dl, rn, sz) ==
    IF TooSmall(sz)
    THEN RetrieveRaise(trk, Error("RuntimeError",
                                  <<"File not created or empty after all download attempts.">>),
                       att, le, m, dl, rn, sz)
    ELSE /\ rpc' = "returned"
         /\ result' = Some(TwitterResult(sz, m))
         /\ pt' = update(trk, Some("processing"), Some(100), None, None, None, None, None)
         /\ attempts' = att
         /\ last_error' = le
         /\ meta' = m
         /\ downloaded' = dl
         /\ ran' = rn
         /\ output_size' = sz
         /\ UNCHANGED raised

\* 3. FFmpeg HLS fallback, up to its await
RetrieveFallback(trk, att, le, m, rn) ==
    IF ~The(m).m3u8_url
    THEN RetrieveRaise(trk, Error("RuntimeError", <<"No m3u8 stream found for FFmpeg fallback.">>),
                       att, le, m, FALSE, Append(rn, "fallback"), 0)
    ELSE /\ rpc' = "ffmpeg"
         /\ pt' = trk
         /\ attempts' = att
         /\ last_error' = le
         /\ meta' = m
         /\ downloaded' = FALSE
         /\ ran' = rn \o <<"fallback", "ffmpeg">>
         /\ output_size' = 0
         /\ UNCHANGED <<result, raised>>

\* download up to its first await: mkdtemp, the first tracker update, the
\* first extraction handed to the executor (YoutubeService: _download_sync)
RetrieveStart ==
    /\ rpc = "call"
    /\ IF rsvc = "twitter"
       THEN /\ rpc' = "extract"
            /\ pt' = update(pt, Some("downloading"), Some(5), Some("Extracting info..."),
                            None, None, None, None)
       ELSE /\ rpc' = "ytdlp"
            /\ pt' = pt
    /\ UNCHANGED <<attempts, last_error, meta, downloaded, ran, output_size, result, raised>>
    /\ RetrieveFrame

\* 1. Metadata extraction: one _extract_metadata_sync call is over
ExtractDone ==
    /\ rpc = "extract"
    /\ LET u == Len(attempts) + 1
           o == scen.extract[u]
           att == Append(attempts, u)
           e == Error("DownloadError", <<o.text>>)
           m == Some([direct_url |-> o.direct_url, m3u8_url |-> o.m3u8_url, user_agent |-> u])
       IN  IF o.ok
           THEN \* break; if not meta; 2. direct download attempt
                IF MetaMissing(m)
                THEN RetrieveRaise(pt, ExtractionFailed(last_error), att, last_error, m,
                                   FALSE, << >>, 0)
                ELSE IF DirectAvailable(The(m))
                THEN /\ rpc' = "direct"
                     /\ attempts' = att
                     /\ meta' = m
                     /\ ran' = <<"direct">>
                     /\ UNCHANGED <<pt, last_error, downloaded, output_size, result, raised>>
                ELSE RetrieveFallback(pt, att, last_error, m, << >>)
           ELSE IF IsTerminal(Str(e)) \/ u = 3
           THEN \* the loop is left without meta
                RetrieveRaise(pt, ExtractionFailed(Some(e)), att, Some(e), None, FALSE, << >>, 0)
           ELSE /\ attempts' = att
                /\ last_error' = Some(e)
                /\ UNCHANGED <<rpc, pt, meta, downloaded, ran, output_size, result, raised>>
    /\ RetrieveFrame

\* 2. _download_direct_aiohttp is over
DirectDone ==
    /\ rpc = "direct"
    /\ IF scen.direct.ok
       THEN RetrieveFinalize(update(pt, Some("downloading"), Some(100), None, None, None, None, None),
                             attempts, last_error, meta, TRUE, ran, scen.direct.size)
       ELSE RetrieveFallback(pt, attempts, last_error, meta, ran)
    /\ RetrieveFrame

\* 3. _download_with_ffmpeg is over
FfmpegDone ==
    /\ rpc = "ffmpeg"
    /\ IF scen.ffmpeg.ok
       THEN RetrieveFinalize(update(pt, Some("downloading"), Some(100), None, None, None, None, None),
                             attempts, last_error, meta, downloaded, ran, scen.ffmpeg.size)
       ELSE RetrieveRaise(pt, Error("RuntimeError", <<"FFmpeg failed">>),
                          attempts, last_error, meta, downloaded, ran, 0)
    /\ RetrieveFrame

\* YoutubeService.download: _download_sync is over
YoutubeDone ==
    /\ rpc = "ytdlp"
    /\ IF scen.ytdlp.ok
       THEN /\ rpc' = "returned"
            /\ result' = Some(YoutubeResult(scen.ytdlp.size))
            /\ output_size' = scen.ytdlp.size
            /\ UNCHANGED raised
       ELSE /\ rpc' = "raised"
            /\ raised' = Some(Error("RuntimeError", <<"Download failed">>))
            /\ UNCHANGED <<result, output_size>>
    /\ UNCHANGED <<pt, attempts, last_error, meta, downloaded, ran>>
    /\ RetrieveFrame

\* ------------------------------- VideoCompressor.compress_if_needed
\* MAX_SIZE_BYTES = int(49.5 * 1024 * 1024)
MAX_SIZE_BYTES == (99 * 1024 * 1024) \div 2

\* input_path and f"{os.path.splitext(input_path)[0]}_compressed.mp4"
Paths == {"input_path", "output_path"}

\* Sizes of the input file, around the limit
InputSizes == {10000, MAX_SIZE_BYTES - 1, MAX_SIZE_BYTES, MAX_SIZE_BYTES + 1}

\* The files at the two paths: None when the path does not exist
FileSystems == [Paths -> {None} \cup {Some(n) : n \in InputSizes}]

\* file_size <= self.MAX_SIZE_BYTES
WithinLimitStrict(size) == size < MAX_SIZE_BYTES
WithinLimit(size) == size <= MAX_SIZE_BYTES

\* ------------------------------- _compress_video_sync
\* AUDIO_BITRATE_KBPS = 128
AUDIO_BITRATE_KBPS == 128

\* max_size_bytes values explored
Ceilings == {1024 * 1024, 8 * 1024 * 1024, MAX_SIZE_BYTES}

\* Durations ffprobe reports, in tenths of a second; _get_duration_sync
\* returns 0.0 when the probe fails
Durations == {0, 10, 600, 6000, 30699, 40000}

\* How an ffmpeg pass can end; "exception" is an exception of Popen or
\* communicate other than TimeoutExpired
PassExits == {"zero", "nonzero", "timeout", "exception"}

\* What pass 2 left at output_path when it ended: nothing written (None), an
\* empty file, or a file with content
Written == {None, Some(0), Some(10000)}

\* One run: the ceiling, the probed duration, and how the two passes end
EncodeRuns ==
    [max_size_bytes : Ceilings, duration : Durations, pass1 : PassExits,
     pass2 : [exit : PassExits, written : Written]]

\* total_bitrate_kbps = max_size_bytes * 0.95 * 8 / 1000 / duration, as the
\* fraction TotalNum / TotalDen for a duration in tenths of a second
TotalNum(max_size_bytes) == max_size_bytes * 19
TotalDen(duration) == 250 * duration

\* video_bitrate_kbps <= 0
VideoBitrateNotPositive(max_size_bytes, duration) ==
    TotalNum(max_size_bytes) <= AUDIO_BITRATE_KBPS * TotalDen(duration)

\* int(video_bitrate_kbps), the number in the "-b:v <n>k" argument
VideoBitrateWithAudio(max_size_bytes, duration) ==
    TotalNum(max_size_bytes) \div TotalDen(duration)
VideoBitrate(max_size_bytes, duration) ==
    TotalNum(max_size_bytes) \div TotalDen(duration) - AUDIO_BITRATE_KBPS

\* _compress_video_sync(input_path, output_path, max_size_bytes) on the files
\* f: the (success, message) it returns, the files it leaves, the bitrate it
\* handed to ffmpeg and the number of passes it started
SyncResult(success, message, files_after, video_bitrate, passes) ==
    [success |-> success, message |-> message, fs |-> files_after,
     video_bitrate |-> video_bitrate, passes |-> passes]
compress_video_sync(f, e) ==
    LET b == Some(VideoBitrate(e.max_size_bytes, e.duration))
        removed == [f EXCEPT !["output_path"] = None]
        after2 == IF e.pass2.written = None THEN f
                  ELSE [f EXCEPT !["output_path"] = e.pass2.written]
    IN  IF e.duration <= 0
        THEN SyncResult(FALSE, "Invalid video duration (must be > 0)", f, None, 0)
        ELSE IF VideoBitrateNotPositive(e.max_size_bytes, e.duration)
        THEN SyncResult(FALSE, "Video too long for target size.", f, None, 0)
        ELSE IF e.pass1 = "nonzero"
        THEN SyncResult(FALSE, "FFmpeg pass 1 failed", f, b, 1)
        ELSE IF e.pass1 = "timeout"
        THEN SyncResult(FALSE, "Compression timed out during pass 1", f, b, 1)
        ELSE IF e.pass1 = "exception"
        THEN SyncResult(FALSE, "Compression error", removed, b, 1)
        ELSE IF e.pass2.exit = "nonzero"
        THEN SyncResult(FALSE, "FFmpeg pass 2 failed", after2, b, 2)
        ELSE IF e.pass2.exit = "timeout"
        THEN SyncResult(FALSE, "Compression timed out during pass 2", removed, b, 2)
        ELSE IF e.pass2.exit = "exception"
        THEN SyncResult(FALSE, "Compression error", removed, b, 2)
        ELSE IF after2["output_path"] # None
        THEN SyncResult(TRUE, "Compression completed successfully.", after2, b, 2)
        ELSE SyncResult(FALSE, "Output file was not created", after2, b, 2)

InitCompressNone ==
    /\ fs0 = [p \in Paths |-> None]
    /\ fs = fs0
    /\ cpc = "none"
    /\ ccalls = 0
    /\ cret = None
    /\ encoder_runs = 0
    /\ enc = None
    /\ sync = None

InitCompress ==
    /\ fs0 \in FileSystems
    /\ fs = fs0
    /\ cpc = "idle"
    /\ ccalls = 0
    /\ cret = None
    /\ encoder_runs = 0
    /\ enc = None
    /\ sync = None

\* _compress_video_sync about to run on an existing input, with any ceiling
InitEncode ==
    /\ fs0 \in FileSystems
    /\ fs0["input_path"] # None
    /\ fs = fs0
    /\ cpc = "sync"
    /\ ccalls = 0
    /\ cret = None
    /\ encoder_runs = 0
    /\ enc \in {Some(e) : e \in EncodeRuns}
    /\ sync = None

CompressFrame ==
    UNCHANGED <<fs0, pt, snap, lastCall, hvars, lvars, rvars, qvars, tvars, wvars, ovars>>

\* compress_if_needed up to its return, its raise or its await
CompressCall ==
    /\ cpc = "idle"
    /\ ccalls < MaxCompressCalls
    /\ ccalls' = ccalls + 1
    /\ IF fs["input_path"] = None
       THEN /\ cret' = Some([raised |-> TRUE, path |-> "", compressed |-> FALSE])
            /\ UNCHANGED cpc
       ELSE IF WithinLimit(The(fs["input_path"]))
       THEN /\ cret' = Some([raised |-> FALSE, path |-> "input_path", compressed |-> FALSE])
            /\ UNCHANGED cpc
       ELSE /\ cret' = None
            /\ cpc' = "encoding"
    /\ enc' = None
    /\ sync' = None
    /\ UNCHANGED <<fs, encoder_runs>>
    /\ CompressFrame

\* _compress_video_sync is over in the process pool; compress_if_needed
\* returns (output_path, True) on success and (input_path, False) otherwise
CompressDone(e) ==
    /\ cpc = "encoding"
    /\ e.max_size_bytes = MAX_SIZE_BYTES
    /\ LET r == compress_video_sync(fs, e)
       IN  /\ cpc' = "idle"
           /\ enc' = Some(e)
           /\ sync' = Some(r)
           /\ encoder_runs' = encoder_runs + 1 + r.passes
           /\ fs' = r.fs
           /\ cret' = IF r.success
                      THEN Some([raised |-> FALSE, path |-> "output_path", compressed |-> TRUE])
                      ELSE Some([raised |-> FALSE, path |-> "input_path", compressed |-> FALSE])
    /\ UNCHANGED ccalls
    /\ CompressFrame

\* _compress_video_sync run on its own
CompressVideoSync ==
    /\ cpc = "sync"
    /\ LET r == compress_video_sync(fs, The(enc))
       IN  /\ cpc' = "synced"
           /\ sync' = Some(r)
           /\ encoder_runs' = encoder_runs + 1 + r.passes
           /\ fs' = r.fs
    /\ UNCHANGED <<ccalls, cret, enc>>
    /\ CompressFrame

\* ------------------------------------------------------- specifications
QueueStep ==
    \/ Start
    \/ StopBegin
    \/ StopEnd
    \/ \E s \in Services : add_to_queue(s)
    \/ \E w \in Workers : WorkerTimeout(w)
    \/ \E w \in Workers : WorkerCancelled(w)
    \/ \E w \in Workers : WorkerTake(w)

PipelineStep ==
    \/ \E w \in Workers : ProcReplyDone(w)
    \/ \E w \in Workers : ProcDownloadDone(w)
    \/ \E w \in Workers : ProcUploadDone(w)
    \/ \E w \in Workers : ProcFinAwait(w)
    \/ \E w \in Workers : ProcFinEdit(w)
    \/ \E w \in Workers : ProcFinDelete(w)
    \/ \E w \in Workers : FailReplyDone(w)
    \/ \E w \in Workers : ReporterWake(w)
    \/ \E w \in Workers : ReporterEditDone(w)
    \/ \E w \in Workers : ReporterCancelled(w)

\* The program as written: DownloadTask is unhashable
InitOthersNone == InitRetrieveNone /\ InitCompressNone
Init == InitQueue /\ InitTracker /\ InitOthersNone /\ hashable = FALSE
Next == QueueStep
Spec == Init /\ [][Next]_vars

\* The worker body applied to task objects of either kind
InitPipeline == InitQueue /\ InitTracker /\ InitOthersNone /\ hashable \in BOOLEAN
NextPipeline == QueueStep \/ PipelineStep
SpecPipeline == InitPipeline /\ [][NextPipeline]_vars

\* One call of a service's download, the collaborators' behaviour chosen at
\* the start
InitRetrieveCall ==
    InitQueue /\ InitTracker /\ InitRetrieve /\ InitCompressNone /\ hashable = FALSE
NextRetrieve ==
    \/ RetrieveStart
    \/ ExtractDone
    \/ DirectDone
    \/ FfmpegDone
    \/ YoutubeDone
SpecRetrieve == InitRetrieveCall /\ [][NextRetrieve]_vars

\* compress_if_needed called repeatedly on one input path
InitCompressCalls ==
    InitQueue /\ InitTracker /\ InitRetrieveNone /\ InitCompress /\ hashable = FALSE
NextCompress ==
    \/ CompressCall
    \/ \E e \in EncodeRuns : CompressDone(e)
SpecCompress == InitCompressCalls /\ [][NextCompress]_vars

\* _compress_video_sync run once, for every ceiling, duration and encoder behaviour
InitEncodeRun ==
    InitQueue /\ InitTracker /\ InitRetrieveNone /\ InitEncode /\ hashable = FALSE
NextEncode == CompressVideoSync
SpecEncode == InitEncodeRun /\ [][NextEncode]_vars

\* ------------------------------------------- ProgressTracker, driven alone
\* The arguments a caller can give: progress below 0, inside and above the
\* range, or omitted; a stage, an error message, a completed flag, or none
ProgressInputs == {None, Some(-5), Some(0), Some(42), Some(100), Some(150)}
StageInputs == {None, Some("downloading"), Some("uploading")}
ErrorInputs == {None, Some("boom")}
CompletedInputs == {None, Some(TRUE), Some(FALSE)}

Call(op, progress, error, completed) ==
    Some([op |-> op, progress |-> progress, error |-> error, completed |-> completed])

\* tracker.update(stage=..., progress=..., error=..., completed=...)
TrackerUpdate(stage, progress, error, completed) ==
    /\ pt' = update(pt, stage, progress, None, None, None, error, completed)
    /\ lastCall' = Call("update", progress, error, completed)
    /\ UNCHANGED <<snap, hvars, lvars, qvars, tvars, wvars, ovars, xvars>>

\* tracker.set_error(error_message)
TrackerSetError(m) ==
    /\ pt' = set_error(pt, m)
    /\ lastCall' = Call("set_error", None, Some(m), Some(TRUE))
    /\ UNCHANGED <<snap, hvars, lvars, qvars, tvars, wvars, ovars, xvars>>

\* tracker.set_completed()
TrackerSetCompleted ==
    /\ pt' = set_completed(pt)
    /\ lastCall' = Call("set_completed", Some(100), None, Some(TRUE))
    /\ UNCHANGED <<snap, hvars, lvars, qvars, tvars, wvars, ovars, xvars>>

\* tracker.get_state()
TrackerGetState ==
    /\ snap' = Some(get_state(pt))
    /\ lastCall' = Call("get_state", None, None, None)
    /\ UNCHANGED <<pt, hvars, lvars, qvars, tvars, wvars, ovars, xvars>>

InitTrackerAlone == InitQueue /\ InitTracker /\ InitOthersNone /\ hashable = FALSE
NextTracker ==
    \/ \E stage \in StageInputs, progress \in ProgressInputs,
          error \in ErrorInputs, completed \in CompletedInputs :
          TrackerUpdate(stage, progress, error, completed)
    \/ \E m \in {"boom"} : TrackerSetError(m)
    \/ TrackerSetCompleted
    \/ TrackerGetState
SpecTracker == InitTrackerAlone /\ [][NextTracker]_vars

\* ------------------------------------------------------------ properties
\* Positions of a worker inside MediaProcessor.process, and inside the
\* async with self.semaphore block
ProcessPcs == {"reply", "download", "upload", "fin_await", "fin_edit", "fin_delete"}
PermitPcs == ProcessPcs \cup {"fail_reply"}
InPipeline == {w \in Workers : wpc[w] \in PermitPcs}
InPipelineTasks == {TaskOf(w) : w \in InPipeline}

\* The order Pending, Downloading, Compressing, Uploading, Completed|Failed on
\* task.status, and the same order on the stage the task's tracker shows
StatusRank(v) ==
    CASE v = "absent" -> 0
      [] v = "pending" -> 1
      [] v = "downloading" -> 2
      [] v = "compressing" -> 4
      [] v = "uploading" -> 5
      [] OTHER -> 6
StageRank(v) ==
    CASE v = "idle" -> 1
      [] v = "downloading" -> 2
      [] v = "processing" -> 3
      [] v = "compressing" -> 4
      [] v = "uploading" -> 5
      [] OTHER -> 6

\* C1: at no instant are more than max_concurrent tasks inside pipeline
\* execution, and each task inside it holds exactly one semaphore permit.
C1_AtMostKInPipeline ==
    /\ Cardinality(InPipelineTasks) <= max_concurrent
    /\ Cardinality(InPipelineTasks) = Cardinality(InPipeline)
    /\ semaphore + Cardinality(InPipeline) = max_concurrent
    /\ Cardinality(active_tasks) <= max_concurrent
\* C1 witness: max_concurrent tasks are in the pipeline at once while another waits
C1_Witness ==
    /\ Cardinality(InPipelineTasks) = max_concurrent
    /\ semaphore = 0
    /\ Len(queue) >= 1

\* C2: once process() has returned or raised for a task, no temporary file or
\* directory of that task is left.
C2_TempFilesRemoved ==
    \A t \in Tasks : procEnd[t] \in {"return", "error"} => files[t] = {}

\* C3: a task whose pipeline raised is Failed and its failure reply was issued;
\* no worker loop has ended unless stop() was called, whatever tasks failed and
\* whatever the worker loop itself caught.
C3_FailureKeepsWorkerAlive ==
    /\ \A t \in Tasks : procEnd[t] = "error" => (status[t] = "failed" /\ notified[t])
    /\ \A t \in Tasks : status[t] = "failed" => procEnd[t] = "error"
    /\ \A w \in Workers : wpc[w] = "done" => (everCancelled[w] /\ ~running)
\* C3 witness: every task failed and was answered, and the manager still runs:
\* with more tasks than workers, some worker went on after a failure
C3_Witness ==
    /\ lifecycle = "running"
    /\ \A t \in Tasks : procEnd[t] = "error" /\ status[t] = "failed" /\ notified[t]
    /\ \A w \in Workers : wpc[w] = "get"

\* C4: task.status never moves backwards in the order Pending, Downloading,
\* Compressing, Uploading, Completed|Failed and never changes once Completed
\* or Failed; the stage shown for a running task never moves backwards either.
C4_StateNeverRegresses ==
    [][ /\ \A t \in Tasks :
             /\ StatusRank(status'[t]) >= StatusRank(status[t])
             /\ status[t] \in {"completed", "failed"} => status'[t] = status[t]
        /\ \A w \in Workers :
             (wpc[w] \in ProcessPcs /\ wpc'[w] \in ProcessPcs)
                => StageRank(tracker'[w].stage) >= StageRank(tracker[w].stage)
      ]_vars
\* C4 witness: one task is Completed, another Failed, a third is uploading
C4_Witness ==
    /\ \E t \in Tasks : status[t] = "completed"
    /\ \E t \in Tasks : status[t] = "failed"
    /\ \E w \in Workers : wpc[w] = "upload" /\ tracker[w].stage = "uploading"

\* C5: whenever no task is active the three per-stage in-flight counters are 0.
C5_CountersZeroWhenIdle ==
    (active_tasks = {} /\ InPipeline = {})
        => /\ stats.currently_downloading = 0
           /\ stats.currently_compressing = 0
           /\ stats.currently_uploading = 0

\* C6: tasks are dequeued, and begin pipeline execution, in submission order.
C6_FifoOrder ==
    /\ \A i \in 1 .. Len(dequeued) : dequeued[i] = i
    /\ \A i \in 1 .. Len(started) : started[i] = i
    /\ Len(started) <= Len(dequeued)
    /\ \A i \in 1 .. Len(queue) : queue[i] = Len(dequeued) + i
\* C6 witness: every task was started, and two of them had waited in the
\* backlog together
C6_Witness ==
    /\ Len(started) = MaxTasks
    /\ lastNotice # None
    /\ The(lastNotice).position >= 2

\* C7: add_to_queue can always be taken, whatever the backlog and the permits
\* held, and each call enqueues one task and adds 1 to total_queued.
C7_AdmissionNeverBlocks ==
    /\ stats.total_queued = nTasks
    /\ Len(queue) + Len(dequeued) = nTasks
    /\ nTasks < MaxTasks => ENABLED (\E s \in Services : add_to_queue(s))
\* C7 witness: a task was admitted while all permits were held
C7_Witness ==
    /\ lastNotice # None
    /\ The(lastNotice).active = max_concurrent
    /\ stats.total_queued = MaxTasks
    /\ Len(queue) >= 1

\* C8: stop() cancels every worker, returns only when all of them have exited,
\* and after it returned no worker dequeues or processes anything.
C8_StopCancelsAndAwaits ==
    /\ [](lifecycle \in {"stopping", "stopped"} => \A w \in Workers : everCancelled[w])
    /\ [](lifecycle = "stopped" => \A w \in Workers : wpc[w] = "done" /\ cur[w] = None)
    /\ [][lifecycle = "stopped"
            => /\ wpc' = wpc
               /\ dequeued' = dequeued
               /\ started' = started
               /\ procEnd' = procEnd
               /\ \A t \in Tasks : status[t] # "absent" => status'[t] = status[t]]_vars
\* C8 witness: stop() returned after cancelling a worker in mid-pipeline while
\* a task was still in the backlog
C8_Witness ==
    /\ lifecycle = "stopped"
    /\ \E t \in Tasks : procEnd[t] = "cancelled"
    /\ Len(queue) >= 1

\* C9: the stored progress and the progress of every snapshot lie in [0, 100].
C9_ProgressInRange ==
    /\ pt.progress >= 0
    /\ pt.progress <= 100
    /\ \A sn \in snap : sn.progress >= 0 /\ sn.progress <= 100
\* C9 witness: a snapshot was taken, then update was called with progress 150
C9_Witness ==
    /\ \E c \in lastCall : c.op = "update" /\ c.progress = Some(150)
    /\ pt.progress = 100
    /\ \E sn \in snap : sn.progress = 0

\* C10: right after a call that supplies an error message the stage is Failed.
C10_ErrorForcesFailed ==
    \A c \in lastCall : c.error # None => pt.stage = "failed"

\* C11: right after a call that sets completed = true the stage is Completed
\* and the progress is 100.
C11_CompletedForcesStageAndProgress ==
    \A c \in lastCall :
        c.completed = Some(TRUE) => (pt.stage = "completed" /\ pt.progress = 100)

\* ---------------------------------- ProgressTracker, the message throttle
\* with self._lock: the lock is free for the thread that wants it
LockNeverHeld(l) == FALSE
LockHeld(l) == l # None

\* current_time - self._last_message_update >= self._throttle_seconds
ThrottleAlwaysElapsed(t, last) == TRUE
ThrottleElapsed(t, last) == t - last >= throttle_seconds

\* time.time() moves on
Tick ==
    /\ clock < MaxClock
    /\ clock' = clock + 1
    /\ UNCHANGED <<pt, snap, lastCall, last_message_update, tpc, current_time, emits,
                   forces, uvars, lvars, qvars, tvars, wvars, ovars, xvars>>

\* should_update_message: current_time = time.time(), read before the lock is taken
ShouldUpdateRead(c) ==
    /\ tpc[c] = "idle"
    /\ tpc' = [tpc EXCEPT ![c] = "read"]
    /\ current_time' = [current_time EXCEPT ![c] = clock]
    /\ UNCHANGED <<pt, snap, lastCall, clock, last_message_update, emits, forces,
                   uvars, lvars, qvars, tvars, wvars, ovars, xvars>>

\* should_update_message: with self._lock, the test, the reset of the
\* timestamp and the return value
ShouldUpdateDecide(c) ==
    /\ tpc[c] = "read"
    /\ ~LockHeld(lock)
    /\ tpc' = [tpc EXCEPT ![c] = "idle"]
    /\ IF ThrottleElapsed(current_time[c], last_message_update)
       THEN /\ last_message_update' = current_time[c]
            /\ emits' = Append(emits, [t |-> current_time[c], forces |-> forces])
       ELSE UNCHANGED <<last_message_update, emits>>
    /\ UNCHANGED <<pt, snap, lastCall, clock, current_time, forces,
                   uvars, lvars, qvars, tvars, wvars, ovars, xvars>>

\* force_update_allowed: self._last_message_update = 0.0
ForceUpdateAllowed ==
    /\ forces < MaxForces
    /\ ~LockHeld(lock)
    /\ last_message_update' = 0
    /\ forces' = forces + 1
    /\ UNCHANGED <<pt, snap, lastCall, clock, tpc, current_time, emits,
                   uvars, lvars, qvars, tvars, wvars, ovars, xvars>>

NextThrottle ==
    \/ Tick
    \/ \E c \in Callers : ShouldUpdateRead(c)
    \/ \E c \in Callers : ShouldUpdateDecide(c)
    \/ ForceUpdateAllowed
    \/ \E progress \in {Some(42)} : TrackerUpdate(None, progress, None, None)
SpecThrottle == InitTrackerAlone /\ [][NextThrottle]_vars

\* ------------------------- _progress_updater, polling one tracker alone
\* if text != last_text
TextAlwaysChanged(text, last) == TRUE
TextChanged(text, last) == text # last

\* if state.completed or state.stage == ProgressStage.FAILED: break
IsFinal(state) == state.completed \/ state.stage = "failed"

UpdaterFrame == UNCHANGED <<pt, snap, lastCall, clock, tpc, current_time, forces,
                            lvars, qvars, tvars, wvars, ovars, xvars>>

\* asyncio.create_task(self._progress_updater(processing_msg, tracker, ...))
UpdaterStart ==
    /\ upd = "none"
    /\ upd' = "sleep"
    /\ UNCHANGED <<last_text, sent, last_message_update, emits>>
    /\ UpdaterFrame

\* asyncio.sleep(0.5) is over: the snapshot, the break, the throttle, the
\* text and its comparison with last_text, up to the await of _safe_edit
UpdaterPoll ==
    /\ upd = "sleep"
    /\ LET state == get_state(pt)
           allowed == ThrottleElapsed(clock, last_message_update)
           text == format_progress_message(state)
       IN  IF IsFinal(state)
           THEN /\ upd' = "done"
                /\ UNCHANGED <<sent, last_message_update, emits>>
           ELSE /\ last_message_update' = IF allowed THEN clock ELSE last_message_update
                /\ emits' = IF allowed
                            THEN Append(emits, [t |-> clock, forces |-> forces])
                            ELSE emits
                /\ IF allowed /\ TextChanged(text, last_text)
                   THEN /\ upd' = "edit"
                        /\ sent' = Append(sent, [text |-> text, t |-> clock,
                                                 last |-> last_message_update])
                   ELSE UNCHANGED <<upd, sent>>
    /\ UNCHANGED last_text
    /\ UpdaterFrame

\* _safe_edit(msg, text) is over (an Exception of msg.edit is swallowed):
\* last_text = text, then asyncio.sleep again
UpdaterEditDone ==
    /\ upd = "edit"
    /\ upd' = "sleep"
    /\ last_text' = sent[Len(sent)].text
    /\ UNCHANGED <<sent, last_message_update, emits>>
    /\ UpdaterFrame

\* progress_task.cancel(): CancelledError at the await, except ...: pass
UpdaterCancelled ==
    /\ upd \in {"sleep", "edit"}
    /\ upd' = "done"
    /\ UNCHANGED <<last_text, sent, last_message_update, emits>>
    /\ UpdaterFrame

\* The stage runner and the progress hooks writing to the tracker meanwhile
NextReporter ==
    \/ Tick
    \/ UpdaterStart
    \/ UpdaterPoll
    \/ UpdaterEditDone
    \/ UpdaterCancelled
    \/ \E stage \in StageInputs, progress \in {None, Some(42), Some(100)} :
          TrackerUpdate(stage, progress, None, None)
    \/ \E m \in {"boom"} : TrackerUpdate(None, None, Some(m), None)
    \/ \E m \in {"boom"} : TrackerSetError(m)
    \/ TrackerSetCompleted
SpecReporter == InitTrackerAlone /\ [][NextReporter]_vars

\* The calls that returned True pairwise, earlier first
EmitPairs == {p \in (1 .. Len(emits)) \X (1 .. Len(emits)) : p[1] < p[2]}

\* C12: two calls of should_update_message that both return True are at least
\* throttle_seconds apart, and a True return sets the timestamp to its time.
C12_OncePerWindow ==
    /\ \A p \in EmitPairs : emits[p[2]].t - emits[p[1]].t >= throttle_seconds
    /\ (emits # << >> /\ last_message_update # 0)
          => last_message_update = emits[Len(emits)].t
\* C12 as amended: the same for two True returns with no force_update_allowed
\* call between them.
C12_OncePerWindowUnlessForced ==
    /\ \A p \in EmitPairs :
          emits[p[1]].forces = emits[p[2]].forces
              => emits[p[2]].t - emits[p[1]].t >= throttle_seconds
    /\ (emits # << >> /\ last_message_update # 0)
          => last_message_update = emits[Len(emits)].t
\* C12 witness: two True returns without a force between them, while another
\* thread holds a reading of the clock older than the timestamp
C12_Witness ==
    /\ Len(emits) >= 2
    /\ emits[Len(emits)].forces = emits[Len(emits) - 1].forces
    /\ \E c \in Callers : tpc[c] = "read" /\ current_time[c] < last_message_update
    /\ pt.progress = 42

\* ------------------------------ ProgressTracker shared between threads
\* The update calls the producer threads make: two progress reports and
\* set_error, which is update(error=..., completed=True)
UpdateCalls ==
    { [stage |-> Some("downloading"), progress |-> Some(42), error |-> None, completed |-> None],
      [stage |-> Some("uploading"), progress |-> Some(100), error |-> None, completed |-> None],
      [stage |-> None, progress |-> None, error |-> Some("boom"), completed |-> Some(TRUE)] }

\* The statements of update in the order they run, and the one after each
FieldAfter(f) ==
    CASE f = "stage" -> "progress"
      [] f = "progress" -> "error"
      [] f = "error" -> "completed"
      [] OTHER -> "exit"

\* update: one of its statements applied to self._state
ApplyField(st, f, a) ==
    CASE f = "stage" -> update(st, a.stage, None, None, None, None, None, None)
      [] f = "progress" -> update(st, None, a.progress, None, None, None, None, None)
      [] f = "error" -> update(st, None, None, None, None, None, a.error, None)
      [] OTHER -> update(st, None, None, None, None, None, None, a.completed)

\* get_state builds a new ProgressState from the fields: the caller's object
\* is not self._state
GetStateReturnsCopy == TRUE

\* update: with self._lock entered
UpdateEnter(p, a) ==
    /\ upc[p] = "idle"
    /\ ~LockHeld(lock)
    /\ lock' = Some(p)
    /\ upc' = [upc EXCEPT ![p] = "stage"]
    /\ args' = [args EXCEPT ![p] = Some(a)]
    /\ UNCHANGED <<pt, snap, lastCall, hvars, committed, mutated, qvars, tvars, wvars, ovars, xvars>>

\* update: the next statement inside the lock
UpdateStep(p) ==
    /\ upc[p] \in {"stage", "progress", "error", "completed"}
    /\ pt' = ApplyField(pt, upc[p], The(args[p]))
    /\ upc' = [upc EXCEPT ![p] = FieldAfter(upc[p])]
    /\ UNCHANGED <<snap, lastCall, hvars, lock, args, committed, mutated,
                   qvars, tvars, wvars, ovars, xvars>>

\* update: the lock is left
UpdateExit(p) ==
    /\ upc[p] = "exit"
    /\ lock' = None
    /\ upc' = [upc EXCEPT ![p] = "idle"]
    /\ args' = [args EXCEPT ![p] = None]
    /\ committed' = committed \cup {pt}
    /\ UNCHANGED <<pt, snap, lastCall, hvars, mutated, qvars, tvars, wvars, ovars, xvars>>

\* get_state: with self._lock, the copy
SharedGetState ==
    /\ ~LockHeld(lock)
    /\ TrackerGetState

\* The caller assigns to a field of the object get_state returned
MutateSnapshot ==
    /\ snap # None
    /\ mutated = None
    /\ LET changed == [The(snap) EXCEPT !.progress = 99]
       IN  /\ mutated' = Some(changed)
           /\ pt' = IF GetStateReturnsCopy THEN pt ELSE changed
    /\ UNCHANGED <<snap, lastCall, hvars, lock, upc, args, committed,
                   qvars, tvars, wvars, ovars, xvars>>

NextShared ==
    \/ \E p \in Producers, a \in UpdateCalls : UpdateEnter(p, a)
    \/ \E p \in Producers : UpdateStep(p)
    \/ \E p \in Producers : UpdateExit(p)
    \/ SharedGetState
    \/ MutateSnapshot
SpecShared == InitTrackerAlone /\ [][NextShared]_vars

\* C13: every snapshot is the state some complete sequence of update calls
\* left, never a partly applied update, and changing a snapshot leaves the
\* tracker's state as the update calls left it.
C13_SnapshotsAreWhole ==
    /\ snap \subseteq committed
    /\ ~LockHeld(lock) => pt \in committed
\* C13 witness: a snapshot taken after set_error was later changed by its
\* caller, and an update is half applied under the lock
C13_Witness ==
    /\ \E sn \in snap : sn.completed /\ sn.error # None
    /\ mutated # None
    /\ LockHeld(lock)
    /\ pt \notin committed

\* ------------------------------------------------ retrieval (C14 .. C19)
\* The call is over: it returned or raised
Concluded == rpc \in {"returned", "raised"}
\* The extraction loop is over
LoopLeft == rpc \notin {"call", "extract"}
\* An extraction outcome that raises an error the loop retries after
Transient(o) == ~o.ok /\ o.text \notin {"not found", "private"}
\* An extraction outcome that raises an error the loop stops at
Terminal(o) == ~o.ok /\ o.text \in {"not found", "private"}

\* C14: extraction attempts are made in list order, primary first, and stop
\* at the first success or the first terminal error: two transient failures
\* and a success give the third user agent's result after exactly three
\* attempts; a terminal error on the first gives a failure after exactly one.
C14_AttemptsInOrderUntilFirstEnd ==
    rsvc = "twitter" =>
        /\ \A i \in 1 .. Len(attempts) : attempts[i] = i
        /\ \A i \in 1 .. (Len(attempts) - 1) : Transient(scen.extract[i])
        /\ (LoopLeft /\ Len(attempts) < 3) => ~Transient(scen.extract[Len(attempts)])
        /\ (LoopLeft /\ Transient(scen.extract[1]) /\ Transient(scen.extract[2])
                     /\ scen.extract[3].ok)
             => /\ attempts = <<1, 2, 3>>
                /\ meta = Some([direct_url |-> scen.extract[3].direct_url,
                                m3u8_url |-> scen.extract[3].m3u8_url, user_agent |-> 3])
        /\ (LoopLeft /\ Terminal(scen.extract[1])) => (attempts = <<1>> /\ rpc = "raised")
C14_Witness ==
    /\ rpc = "returned"
    /\ attempts = <<1, 2, 3>>
    /\ Transient(scen.extract[1])
    /\ Transient(scen.extract[2])
    /\ \E r \in result : r.meta = Some([direct_url |-> scen.extract[3].direct_url,
                                       m3u8_url |-> scen.extract[3].m3u8_url, user_agent |-> 3])

\* Every user agent's extraction raised an error the loop retries after
Exhausted == \A u \in UserAgents : Transient(scen.extract[u])
\* The last part of a message
LastPart(text) == <<text[Len(text)]>>

Usable(o) == o.ok /\ (o.direct_url \/ o.m3u8_url)

\* C16: the user agent whose extraction result is used is the first in list
\* order that yields a direct URL or a manifest URL; one whose extraction
\* returns without a stream location does not win, and the remaining user
\* agents are still tried.
C16_FirstUsableIdentityWins ==
    (rsvc = "twitter" /\ LoopLeft) =>
        /\ \A m \in meta : m.direct_url \/ m.m3u8_url
        /\ Len(attempts) < 3 =>
              (Usable(scen.extract[Len(attempts)]) \/ Terminal(scen.extract[Len(attempts)]))

\* The paths download entered, as a set
Ran == {ran[i] : i \in 1 .. Len(ran)}

Produced == IF "ffmpeg" \in Ran THEN scen.ffmpeg.size ELSE scen.direct.size

\* C18: download never returns a result for a file that is missing or
\* smaller than 10000 bytes: it raises then, whether the direct transfer or
\* ffmpeg left the file.
C18_NoResultForTooSmallFile ==
    (rsvc = "twitter" /\ Concluded) =>
        /\ rpc = "returned" =>
              (Produced >= 10000 /\ \A r \in result : r.file_size = Produced)
        /\ Produced < 10000 => (rpc = "raised" /\ result = None)
C18_Witness ==
    /\ rsvc = "twitter"
    /\ rpc = "raised"
    /\ ran = <<"direct">>
    /\ scen.direct.ok
    /\ scen.direct.size = 9999
    /\ result = None

\* C19: every result a download returns carries needs_compression, and it is
\* true exactly when the file's size in bytes is greater than the threshold
\* (false at the threshold).
C19_ResultCarriesNeedsCompression ==
    \A r \in result :
        /\ r.needs_compression # None
        /\ The(r.needs_compression) <=> (r.file_size > 49 * 1024 * 1024)

\* ------------------------------------------------ compression (C20)
\* C20: compress_if_needed, called any number of times on a file whose size
\* is at most MAX_SIZE_BYTES, returns (input_path, False) each time, runs
\* no probe or encoder, and creates, modifies or deletes no file.
C20_SmallInputUntouched ==
    \A size \in fs0["input_path"] :
        size <= MAX_SIZE_BYTES =>
            /\ fs = fs0
            /\ encoder_runs = 0
            /\ cpc = "idle"
            /\ ccalls > 0 =>
                  cret = Some([raised |-> FALSE, path |-> "input_path", compressed |-> FALSE])
C20_Witness ==
    /\ ccalls >= 2
    /\ fs0["input_path"] = Some(MAX_SIZE_BYTES)
    /\ fs = fs0
    /\ encoder_runs = 0
    /\ cret = Some([raised |-> FALSE, path |-> "input_path", compressed |-> FALSE])

\* ------------------------------------------------ encoding (C21 .. C24)
\* C21: for every ceiling and positive duration, the video bitrate handed to
\* the encoder ("-b:v <k>k", k * 1000 bits per second) is
\* ceiling * 0.95 * 8 / duration - 128000 bits per second truncated to whole
\* kbps: the exact value lies in [1000 k, 1000 (k + 1)).  With the duration d
\* in tenths of a second that is (k + 128) * 250 d <= 19 ceiling < (k + 129) * 250 d.
\* For the ceiling 49.5 MiB and 600 s the value is 529 kbps (exact: 529457.152).
C21_BitrateMatchesFormula ==
    \A e \in enc : \A r \in sync :
        /\ r.passes > 0 => r.video_bitrate # None
        /\ \A k \in r.video_bitrate :
              /\ e.duration > 0
              /\ k >= 0
              /\ (k + 128) * 250 * e.duration <= 19 * e.max_size_bytes
              /\ 19 * e.max_size_bytes < (k + 129) * 250 * e.duration
        /\ (e.max_size_bytes = 51904512 /\ e.duration = 6000) => r.video_bitrate = Some(529)
C21_Witness ==
    /\ cpc = "synced"
    /\ \E e \in enc : e.max_size_bytes = 51904512 /\ e.duration = 6000
    /\ \E r \in sync : r.success /\ r.passes = 2 /\ r.video_bitrate = Some(529)

\* C22: when the computed video bitrate is zero or negative, no encoder pass
\* is started, no bitrate is handed to the encoder (none is substituted),
\* and compress_if_needed raises to its caller instead of returning a path.
C22_NonPositiveBitrateRaises ==
    \A e \in enc : \A r \in sync : \A c \in cret :
        (e.duration > 0 /\ 19 * e.max_size_bytes <= 128 * 250 * e.duration) =>
            /\ r.passes = 0
            /\ r.video_bitrate = None
            /\ c.raised

\* C23: for an input over the ceiling, compress_if_needed raises whenever
\* the probe fails or the duration is not positive, a pass exits non-zero or
\* times out, or the output is missing or empty; it returns normally only
\* with (output_path, True) and an existing, non-empty output file.
C23_FailureRaisesSuccessVerified ==
    \A e \in enc : \A r \in sync : \A c \in cret :
        /\ (\/ e.duration <= 0
            \/ r.passes >= 1 /\ e.pass1 \in {"nonzero", "timeout"}
            \/ r.passes = 2 /\ e.pass2.exit \in {"nonzero", "timeout"}
            \/ r.passes = 2 /\ fs["output_path"] \in {None, Some(0)}) => c.raised
        /\ ~c.raised =>
              /\ c = [raised |-> FALSE, path |-> "output_path", compressed |-> TRUE]
              /\ fs["output_path"] \notin {None, Some(0)}

\* C24: after a run of _compress_video_sync that failed at any step, no
\* output of that run remains at output_path: the path is empty, or holds
\* the file that was there before and the run wrote nothing.
C24_NoPartialOutputAfterFailure ==
    \A e \in enc : \A r \in sync :
        ~r.success =>
            \/ fs["output_path"] = None
            \/ /\ fs["output_path"] = fs0["output_path"]
               /\ (r.passes < 2 \/ e.pass2.written = None)

\* process() ends for worker w at this step: it returns or raises into
\* _process_task_safely
Leaving(w) == wpc[w] \in ProcessPcs /\ wpc'[w] \notin ProcessPcs

\* C25: a task whose retrieval returned an artifact above the ceiling
\* (needs_compression true) and that is not cancelled ends process() with the
\* compressed output delivered, status COMPLETED and no temp file left.
C25_LargeArtifactCompressedAndDelivered ==
    [][\A w \in Workers :
          (/\ Leaving(w)
           /\ needs_compression[w] = Some(TRUE)
           /\ procEnd'[TaskOf(w)] # "cancelled") =>
              /\ delivered[w]
              /\ status'[TaskOf(w)] = "completed"
              /\ files'[TaskOf(w)] = {}]_vars

\* C26: when the retrieval succeeded and an encoder pass then exits non-zero,
\* compress_if_needed fails (so that process() fails the task and delivers
\* nothing) and no partial compressed file remains at output_path.
C26_EncoderFailureFailsAndCleans ==
    \A e \in enc : \A r \in sync : \A c \in cret :
        (\/ r.passes >= 1 /\ e.pass1 = "nonzero"
         \/ r.passes = 2 /\ e.pass2.exit = "nonzero") =>
            /\ c.raised
            /\ \/ fs["output_path"] = None
               \/ r.passes < 2 /\ fs["output_path"] = fs0["output_path"]

\* C27: in the finally block of process(), a failed pipeline has rendered the
\* failure text with the error reason and its progress message is not
\* deleted; the message is deleted only for a pipeline that succeeded, whose
\* artifact was delivered.
C27_FailureShownDeletedOnlyOnSuccess ==
    \A w \in Workers :
        wpc[w] \in {"fin_edit", "fin_delete"} =>
            /\ exc[w] = "error" =>
                  /\ rendered[w] # None
                  /\ The(rendered[w]).heading = "Failed"
                  /\ The(rendered[w]).reason # None
                  /\ The(rendered[w]).reason = get_state(tracker[w]).error
            /\ wpc[w] = "fin_delete" => exc[w] = "none" /\ delivered[w]

\* C28: a task whose artifact was delivered and that is not cancelled leaves
\* process() COMPLETED, counted in total_processed and with the temp cleanup
\* done, whatever the outcome of the replies, edits and deletions of messages.
C28_NotificationFailureKeepsBookkeeping ==
    [][\A w \in Workers :
          (/\ Leaving(w)
           /\ delivered[w]
           /\ procEnd'[TaskOf(w)] # "cancelled") =>
              /\ status'[TaskOf(w)] = "completed"
              /\ stats'.total_processed = stats.total_processed + 1
              /\ files'[TaskOf(w)] = Cleanup(files[TaskOf(w)], {})]_vars

\* C29: the reporter task runs only while process() is in its stages or
\* awaiting it; once process() is past await progress_task (final edit,
\* delete, return or raise) the reporter that was created has finished, so it
\* edits nothing after the final render; and the step on which the cancelled
\* reporter ends, like the await that collects it, leaves the exception in
\* flight and the task's outcome as they were.
C29_ReporterEndsBeforeFinalRender ==
    /\ [](\A w \in Workers :
            /\ wpc[w] \notin {"download", "upload", "fin_await"} =>
                  reporter[w] \in {"none", "done"}
            /\ wpc[w] \in {"fin_edit", "fin_delete"} => reporter[w] = "done")
    /\ [][\A w \in Workers :
            (\/ reporter[w] # "done" /\ reporter'[w] = "done"
             \/ wpc[w] = "fin_await" /\ wpc'[w] # "fin_await") =>
                /\ exc'[w] = exc[w]
                /\ wpc'[w] \in {"fin_await", "fin_edit"}
                /\ procEnd' = procEnd
                /\ status' = status]_vars

C29_Witness ==
    \E w \in Workers :
        /\ wpc[w] = "fin_edit"
        /\ reporter[w] = "done"
        /\ exc[w] = "none"
        /\ rendered[w] # None

\* C30: within one run of process() the stages are entered in the order
\* download, compress, upload; the compress stage is entered exactly when the
\* retrieval result has needs_compression true, and a result with
\* needs_compression false goes from download straight to upload.
C30_StageOrderCompressIffNeeded ==
    \A w \in Workers :
        /\ stages[w] \in {<< >>, <<"downloading">>,
                          <<"downloading", "compressing">>,
                          <<"downloading", "uploading">>,
                          <<"downloading", "compressing", "uploading">>}
        /\ (\E i \in DOMAIN stages[w] : stages[w][i] = "compressing")
              <=> needs_compression[w] = Some(TRUE)
        /\ needs_compression[w] = Some(FALSE) =>
              stages[w] = <<"downloading", "uploading">>
        /\ needs_compression[w] = None => Len(stages[w]) <= 1

C30_Witness ==
    \E w, v \in Workers :
        /\ stages[w] = <<"downloading", "compressing">>
        /\ needs_compression[w] = Some(TRUE)
        /\ stages[v] = <<"downloading", "uploading">>
        /\ needs_compression[v] = Some(FALSE)

\* C31: every edit the reporter issued came from a poll whose
\* should_update_message was true (the throttle had elapsed at that time)
\* and whose text differed from the text of the previous edit; no edit shows
\* a completed or failed snapshot; once a poll sees such a snapshot the
\* reporter ends, and an ended reporter issues nothing more.
C31_EditsThrottledAndDistinct ==
    /\ [](\A i \in 1 .. Len(sent) :
            /\ sent[i].t - sent[i].last >= throttle_seconds
            /\ sent[i].text # NoText
            /\ i > 1 => sent[i].text # sent[i - 1].text
            /\ sent[i].text.heading \notin {"Completed", "Failed"})
    /\ [][/\ (upd = "sleep" /\ IsFinal(get_state(pt)) /\ upd' # upd) =>
                (upd' = "done" /\ sent' = sent)
          /\ upd = "done" => (upd' = "done" /\ sent' = sent)]_vars

C31_Witness ==
    /\ Len(sent) = 2
    /\ sent[1].text.heading = sent[2].text.heading
    /\ upd = "done"
    /\ IsFinal(get_state(pt))

\* C32: the permits free plus the workers inside the async with block make
\* max_concurrent; the tasks in active_tasks are those of the workers inside
\* _process_task_safely; stats['active'] is the size of active_tasks and at
\* most max_concurrent; and on the step a worker leaves the block, however
\* the task ended, its permit is back and the task is out of active_tasks.
C32_PermitConservation ==
    /\ [](/\ semaphore >= 0
          /\ semaphore + Cardinality(InPipeline) = max_concurrent
          /\ active_tasks = InPipelineTasks
          /\ stats.active = Cardinality(active_tasks)
          /\ stats.active <= max_concurrent)
    /\ [][\A w \in Workers :
            (wpc[w] \in PermitPcs /\ wpc'[w] \notin PermitPcs) =>
                /\ semaphore' = semaphore + 1
                /\ TaskOf(w) \notin active_tasks'
                /\ procEnd'[TaskOf(w)] \in {"return", "error", "cancelled"}]_vars

C32_Witness ==
    /\ semaphore = max_concurrent
    /\ active_tasks = {}
    /\ \E t \in Tasks : procEnd[t] = "return"
    /\ \E t \in Tasks : procEnd[t] = "error"
    /\ \E t \in Tasks : procEnd[t] = "cancelled"

\* The tasks queue.get() has returned
Dequeued == {dequeued[i] : i \in 1 .. Len(dequeued)}

\* C33: while no stop() is under way, total_processed is the number of tasks
\* that ended COMPLETED, total_failed the number that ended FAILED, and
\* total_queued is the backlog plus the tasks dequeued and not yet ended
\* plus those two counters.
C33_CountersConserved ==
    lifecycle \notin {"stopping", "stopped"} =>
        /\ stats.total_processed = Cardinality({t \in Tasks : status[t] = "completed"})
        /\ stats.total_failed = Cardinality({t \in Tasks : status[t] = "failed"})
        /\ stats.total_queued =
              Len(queue)
              + Cardinality({t \in Dequeued : status[t] \notin {"completed", "failed"}})
              + stats.total_processed + stats.total_failed

\* C34: the file handed to send_file is never larger than MAX_SIZE_BYTES, a
\* delivery is a delivery of such a file, and a run whose result asked for
\* compression and that handed nothing to send_file does not end COMPLETED.
C34_DeliveredWithinCeiling ==
    /\ [](\A w \in Workers :
            /\ \A n \in handed[w] : n <= MAX_SIZE_BYTES
            /\ delivered[w] => handed[w] # None)
    /\ [][\A w \in Workers :
            (Leaving(w) /\ needs_compression[w] = Some(TRUE) /\ handed[w] = None) =>
                /\ ~delivered[w]
                /\ status'[TaskOf(w)] # "completed"]_vars

C34_Witness ==
    \E w, v \in Workers :
        /\ delivered[w]
        /\ handed[w] = Some(COMPRESSION_THRESHOLD_BYTES)
        /\ needs_compression[v] = Some(TRUE)
        /\ wpc[v] = "fin_edit"

\* ------------------------------------------ the queue with no stop()
\* The manager started by main.py and never stopped: stop() has no caller in
\* the program, so no worker is ever cancelled
NextLive ==
    \/ Start
    \/ \E s \in Services : add_to_queue(s)
    \/ \E w \in Workers : WorkerTimeout(w)
    \/ \E w \in Workers : WorkerTake(w)
    \/ PipelineStep

\* The event loop runs every worker that can take a step, and every await of
\* a pipeline returns or raises
FairLive ==
    /\ WF_vars(Start)
    /\ \A w \in Workers :
          /\ WF_vars(WorkerTake(w))
          /\ WF_vars(ProcReplyDone(w))
          /\ WF_vars(ProcDownloadDone(w))
          /\ WF_vars(ProcUploadDone(w))
          /\ WF_vars(ReporterCancelled(w))
          /\ WF_vars(ProcFinAwait(w))
          /\ WF_vars(ProcFinEdit(w))
          /\ WF_vars(ProcFinDelete(w))
          /\ WF_vars(FailReplyDone(w))
SpecLive == InitPipeline /\ [][NextLive]_vars /\ FairLive

\* C35: every task admitted is dequeued at most once and, once admitted,
\* is eventually dequeued and eventually COMPLETED or FAILED.
C35_EveryTaskEnds ==
    /\ [](\A i, j \in DOMAIN dequeued : dequeued[i] = dequeued[j] => i = j)
    /\ \A t \in Tasks :
          (status[t] = "pending") ~>
              (/\ \E i \in DOMAIN dequeued : dequeued[i] = t
               /\ status[t] \in {"completed", "failed"})

\* C36: a task whose worker was cancelled inside process() is out of
\* active_tasks, its reporter has ended and none of its temporary files is
\* left; after stop() returned active_tasks is empty and every permit is free.
C36_CancelledTaskLeavesNothing ==
    /\ \A t \in Tasks :
          procEnd[t] = "cancelled" =>
              /\ t \notin active_tasks
              /\ files[t] = {}
    /\ \A w \in Workers : wpc[w] = "done" => reporter[w] \in {"none", "done"}
    /\ lifecycle = "stopped" =>
          /\ active_tasks = {}
          /\ semaphore = max_concurrent

\* C37: whenever _compress_video_sync started an encoder pass, the number in
\* its "-b:v <n>k" argument, int(video_bitrate_kbps), is at least 1.
C37_EncoderBitrateAtLeastOne ==
    \A r \in sync :
        r.passes >= 1 =>
            /\ r.video_bitrate # None
            /\ The(r.video_bitrate) >= 1

=============================================================================
